---- MODULE Spec2Model ----
(***************************************************************************)
(* A model of mini_bitcoin: the chain, the UTXO index and the snapshot file *)
(* of blockchain.py, with the transaction model of transaction.py and the  *)
(* primitives of crypto_utils.py; the mempool of mempool.py; the loop of   *)
(* miner.py; POST /send of api.py; the messages, the handlers and the      *)
(* reading of the byte stream of p2p.py; the listener of p2p.py and the    *)
(* shutdown path of main.py.                                               *)
(*                                                                         *)
(* SHA-256 is modelled as an ideal (injective) hash: the digest of a       *)
(* preimage is the preimage itself, wrapped in a tuple.  Whether a digest  *)
(* starts with the difficulty prefix is a fixed pseudo-random function of  *)
(* the preimage.  The string of 64 zeros is the empty tuple.               *)
(***************************************************************************)
EXTENDS Integers, Sequences, FiniteSets, TLC

\* ------------------------------------------------------------------ bounds
MaxChain == 3
MaxTime == 2
MaxPool == 2
MaxMessages == 2

\* ------------------------------------------------------- program constants
BLOCK_REWARD == 50

ZeroHash == << >>

GenesisTime == 1

Times == 1..MaxTime

\* -------------------------------------------------------------- crypto_utils
pubkey_to_address(pubkey) ==
    IF pubkey = "pkA" THEN "addrA" ELSE IF pubkey = "pkB" THEN "addrB" ELSE "addrNone"

sign_data(private_key, data) == [signer |-> private_key, data |-> data]

BadSignature(data) == [signer |-> "nobody", data |-> data]

verify_signature(public_key, data, signature) ==
    signature.signer = public_key /\ signature.data = data

\* -------------------------------------------------------------- transaction
TxOutput(value, address) == [value |-> value, address |-> address]

TxInput(txid, index, signature, pubkey) ==
    [txid |-> txid, index |-> index, signature |-> signature, pubkey |-> pubkey]

to_dict(tx) ==
    [inputs |-> tx.inputs, outputs |-> tx.outputs,
     is_coinbase |-> tx.is_coinbase, timestamp |-> tx.timestamp]

tx_compute_hash(tx) == <<"tx", to_dict(tx)>>

Transaction(inputs, outputs, is_coinbase, timestamp) ==
    LET body == [inputs |-> inputs, outputs |-> outputs,
                 is_coinbase |-> is_coinbase, timestamp |-> timestamp]
    IN  [inputs |-> inputs, outputs |-> outputs, is_coinbase |-> is_coinbase,
         timestamp |-> timestamp, txid |-> tx_compute_hash(body)]

create_coinbase(miner_address, block_reward, now) ==
    Transaction(<< >>, <<TxOutput(block_reward, miner_address)>>, TRUE, now)

\* -------------------------------------------------------------------- block
TxDicts(transactions) == [i \in 1..Len(transactions) |-> to_dict(transactions[i])]

compute_hash(block) ==
    <<block.index, block.prev_hash, TxDicts(block.transactions),
      block.nonce, block.timestamp>>

\* hash.startswith(DIFFICULTY_PREFIX): the string of zeros has the prefix; a
\* digest has it for one nonce in three, depending on the rest of the preimage.
StartsWithDifficultyPrefix(hash) ==
    \/ hash = ZeroHash
    \/ /\ Len(hash) = 5
       /\ (hash[1] + Len(hash[3]) + hash[4] + hash[5]) % 3 = 0

Block(index, prev_hash, transactions, nonce, timestamp, hash) ==
    [index |-> index, prev_hash |-> prev_hash, transactions |-> transactions,
     nonce |-> nonce, timestamp |-> timestamp, hash |-> hash]

\* --------------------------------------------------------------- blockchain
EmptyUtxo == [k \in {} |-> TxOutput(0, "")]

NoFile == [exists |-> FALSE, chain |-> << >>, utxo_set |-> EmptyUtxo]

RECURSIVE SumInputs(_, _)
SumInputs(inputs, utxo) ==
    IF inputs = << >> THEN 0
    ELSE utxo[<<Head(inputs).txid, Head(inputs).index>>].value
         + SumInputs(Tail(inputs), utxo)

RECURSIVE SumOutputs(_)
SumOutputs(outputs) ==
    IF outputs = << >> THEN 0
    ELSE Head(outputs).value + SumOutputs(Tail(outputs))

validate_transaction(tx, utxo) ==
    IF tx.is_coinbase THEN TRUE
    ELSE /\ \A i \in 1..Len(tx.inputs) :
               <<tx.inputs[i].txid, tx.inputs[i].index>> \in DOMAIN utxo
         /\ SumInputs(tx.inputs, utxo) >= SumOutputs(tx.outputs)

is_valid_new_block(block, prev_block, utxo) ==
    /\ block.prev_hash = prev_block.hash
    /\ block.index = prev_block.index + 1
    /\ StartsWithDifficultyPrefix(block.hash)
    /\ block.hash = compute_hash(block)
    /\ \A i \in 1..Len(block.transactions) :
           validate_transaction(block.transactions[i], utxo)

RemoveSpent(utxo, tx) ==
    IF tx.is_coinbase THEN utxo
    ELSE LET spent == {<<tx.inputs[i].txid, tx.inputs[i].index>> : i \in 1..Len(tx.inputs)}
         IN  [k \in (DOMAIN utxo) \ spent |-> utxo[k]]

AddOutputs(utxo, tx) ==
    LET new == {<<tx.txid, i - 1>> : i \in 1..Len(tx.outputs)}
    IN  [k \in (DOMAIN utxo) \cup new |->
            IF k \in new THEN tx.outputs[k[2] + 1] ELSE utxo[k]]

RECURSIVE ApplyTransactions(_, _)
ApplyTransactions(utxo, transactions) ==
    IF transactions = << >> THEN utxo
    ELSE ApplyTransactions(AddOutputs(RemoveSpent(utxo, Head(transactions)),
                                      Head(transactions)),
                           Tail(transactions))

update_utxo_set(utxo, block) == ApplyTransactions(utxo, block.transactions)

RECURSIVE get_balance_of(_, _, _)
get_balance_of(utxo, keys, address) ==
    IF keys = {} THEN 0
    ELSE LET k == CHOOSE x \in keys : TRUE
         IN  (IF utxo[k].address = address THEN utxo[k].value ELSE 0)
             + get_balance_of(utxo, keys \ {k}, address)

get_balance(utxo, address) == get_balance_of(utxo, DOMAIN utxo, address)

\* is_valid_chain without the comparison of the stored hash with compute_hash.
is_valid_chain_no_hash_check(new_chain, local_chain) ==
    /\ compute_hash(new_chain[1]) = compute_hash(local_chain[1])
    /\ \A i \in 2..Len(new_chain) :
           /\ new_chain[i].prev_hash = new_chain[i - 1].hash
           /\ StartsWithDifficultyPrefix(new_chain[i].hash)

is_valid_chain(new_chain, local_chain) ==
    /\ compute_hash(new_chain[1]) = compute_hash(local_chain[1])
    /\ \A i \in 2..Len(new_chain) :
           /\ new_chain[i].prev_hash = new_chain[i - 1].hash
           /\ StartsWithDifficultyPrefix(new_chain[i].hash)
           /\ new_chain[i].hash = compute_hash(new_chain[i])

RECURSIVE RebuildUtxo(_, _)
RebuildUtxo(utxo, blocks) ==
    IF blocks = << >> THEN utxo
    ELSE RebuildUtxo(update_utxo_set(utxo, Head(blocks)), Tail(blocks))

GenesisBlock ==
    LET genesis_tx == create_coinbase("genesis_miner", BLOCK_REWARD, GenesisTime)
        b == Block(0, ZeroHash, <<genesis_tx>>, 0, GenesisTime, ZeroHash)
    IN  [b EXCEPT !.hash = compute_hash(b)]

save_to_disk(new_chain, new_utxo) ==
    [exists |-> TRUE, chain |-> new_chain, utxo_set |-> new_utxo]

last_block(c) == c[Len(c)]

\* The reason the code prints when it rejects a block.
RejectReason(block, prev_block, utxo) ==
    IF block.prev_hash # prev_block.hash THEN "Invalid prev_hash"
    ELSE IF block.index # prev_block.index + 1 THEN "Invalid index"
    ELSE IF ~StartsWithDifficultyPrefix(block.hash) THEN "Invalid difficulty"
    ELSE IF block.hash # compute_hash(block) THEN "Invalid hash"
    ELSE IF \E i \in 1..Len(block.transactions) :
                ~validate_transaction(block.transactions[i], utxo)
         THEN "Invalid transaction"
    ELSE "none"

\* ------------------------------------------------------------------ mempool
\* Mempool.transactions is a dict keyed by txid; a dict keeps the order of
\* insertion, so it is the sequence of its values.
Txids(transactions) == {transactions[i].txid : i \in 1..Len(transactions)}

\* add_transaction that stores the transaction over one with the same txid.
add_transaction_overwrite(transactions, tx) ==
    [transactions |->
        IF tx.txid \in Txids(transactions)
        THEN [i \in 1..Len(transactions) |->
                 IF transactions[i].txid = tx.txid THEN tx ELSE transactions[i]]
        ELSE Append(transactions, tx),
     result |-> TRUE]

add_transaction(transactions, tx) ==
    IF tx.txid \in Txids(transactions)
    THEN [transactions |-> transactions, result |-> FALSE]
    ELSE [transactions |-> Append(transactions, tx), result |-> TRUE]

remove_transaction(transactions, txid) ==
    SelectSeq(transactions, LAMBDA t : t.txid # txid)

\* limit = 0 stands for None as well: `if limit:` takes both the same way.
get_transactions(transactions, limit) ==
    IF limit # 0 /\ limit < Len(transactions)
    THEN SubSeq(transactions, 1, limit)
    ELSE transactions

\* ---------------------------------------------------------------------- p2p
\* A message is the dict that json.dumps writes and json.loads reads back:
\* ints, strings, booleans, lists and dicts come back as they went in.
BlockData(block) ==
    [index |-> block.index, prev_hash |-> block.prev_hash,
     transactions |-> TxDicts(block.transactions), nonce |-> block.nonce,
     timestamp |-> block.timestamp, hash |-> block.hash]

request_chain_message == [type |-> "REQUEST_CHAIN"]

send_chain_message(c) ==
    [type |-> "SEND_CHAIN", chain |-> [i \in 1..Len(c) |-> BlockData(c[i])]]

new_tx_message(tx) == [type |-> "NEW_TX", tx |-> to_dict(tx)]

new_block_message(block) == [type |-> "NEW_BLOCK", block |-> BlockData(block)]

\* The dicts the SEND_CHAIN branch of handle_message reads: a transaction
\* dict with a 'txid' key next to the keys of to_dict.
TxDataWithTxid(tx) ==
    [inputs |-> tx.inputs, outputs |-> tx.outputs, is_coinbase |-> tx.is_coinbase,
     timestamp |-> tx.timestamp, txid |-> tx.txid]

BlockDataWithTxids(block) ==
    [BlockData(block) EXCEPT !.transactions =
        [i \in 1..Len(block.transactions) |-> TxDataWithTxid(block.transactions[i])]]

chain_message_with_txids(c) ==
    [type |-> "SEND_CHAIN", chain |-> [i \in 1..Len(c) |-> BlockDataWithTxids(c[i])]]

\* The subscripts and keyword arguments of p2p.py:116-134: without one of
\* the keys the reconstruction raises.
TxDataKeys == {"inputs", "outputs", "txid", "is_coinbase", "timestamp"}

BlockDataKeys == {"index", "prev_hash", "transactions", "nonce", "timestamp", "hash"}

TxDataOk(tx_data) ==
    /\ TxDataKeys \subseteq DOMAIN tx_data
    /\ \A i \in 1..Len(tx_data.inputs) :
           /\ {"txid", "index"} \subseteq DOMAIN tx_data.inputs[i]
           /\ DOMAIN tx_data.inputs[i] \subseteq {"txid", "index", "signature", "pubkey"}
    /\ \A i \in 1..Len(tx_data.outputs) :
           DOMAIN tx_data.outputs[i] = {"value", "address"}

BlockDataOk(b_data) ==
    /\ BlockDataKeys \subseteq DOMAIN b_data
    /\ \A i \in 1..Len(b_data.transactions) : TxDataOk(b_data.transactions[i])

\* What the reconstruction of the SEND_CHAIN branch raises.
ReconstructError(msg) ==
    IF "chain" \notin DOMAIN msg THEN "TypeError"
    ELSE IF \E i \in 1..Len(msg.chain) : ~BlockDataOk(msg.chain[i]) THEN "KeyError"
    ELSE "none"

tx_from_dict(tx_data) ==
    [inputs |-> tx_data.inputs, outputs |-> tx_data.outputs,
     is_coinbase |-> tx_data.is_coinbase, timestamp |-> tx_data.timestamp,
     txid |-> tx_data.txid]

block_from_dict(b_data) ==
    Block(b_data.index, b_data.prev_hash,
          [i \in 1..Len(b_data.transactions) |-> tx_from_dict(b_data.transactions[i])],
          b_data.nonce, b_data.timestamp, b_data.hash)

chain_from_dicts(chain_data) ==
    [i \in 1..Len(chain_data) |-> block_from_dict(chain_data[i])]

RemoveAt(seq, i) == SubSeq(seq, 1, i - 1) \o SubSeq(seq, i + 1, Len(seq))

\* broadcast: the for loop over self.active_peers from position i on, with
\* sendall failing on the sockets of `down`; remove() shifts the list under
\* the loop.  Gives the list left and the messages sent.
RECURSIVE broadcast_from(_, _, _, _)
broadcast_from(peers, i, down, message) ==
    IF i > Len(peers) THEN [active_peers |-> peers, sent |-> << >>]
    ELSE IF peers[i] \in down
    THEN broadcast_from(RemoveAt(peers, i), i + 1, down, message)
    ELSE LET rest == broadcast_from(peers, i + 1, down, message)
         IN  [active_peers |-> rest.active_peers,
              sent |-> <<[to |-> peers[i], msg |-> message]>> \o rest.sent]

broadcast(peers, down, message) == broadcast_from(peers, 1, down, message)

\* ------------------------------------------------- inputs of the operations
\* The blocks and chains handed to add_block and replace_chain: what a miner
\* or a peer (honest or not) can build on a given tip and UTXO index.  The
\* chains handed to replace_chain are the prefixes of the local chain (none of
\* them longer than it), every longer chain that extends such a prefix with
\* plain blocks and one last block, and chains on a foreign genesis block.
OwnerKey(address) == IF address = "addrB" THEN "pkB" ELSE "pkA"

OtherKey(pubkey) == IF pubkey = "pkA" THEN "pkB" ELSE "pkA"

SpendVariants ==
    {"change", "fee", "overspend", "wrong_pubkey", "bad_signature", "duplicate_input",
     "negative_output"}

SpendTx(key, out, variant, to, now) ==
    LET pk == IF variant = "wrong_pubkey" THEN OtherKey(OwnerKey(out.address))
              ELSE OwnerKey(out.address)
        sig == IF variant = "bad_signature" THEN BadSignature(key[1])
               ELSE sign_data(pk, key[1])
        inp == TxInput(key[1], key[2], sig, pk)
        inputs == IF variant = "duplicate_input" THEN <<inp, inp>> ELSE <<inp>>
        outputs ==
            CASE variant = "change" ->
                    <<TxOutput(out.value - 20, to), TxOutput(20, out.address)>>
              [] variant = "fee" -> <<TxOutput(out.value - 10, to)>>
              [] variant = "overspend" -> <<TxOutput(out.value + 10, to)>>
              [] variant = "duplicate_input" -> <<TxOutput(2 * out.value, to)>>
              [] variant = "negative_output" ->
                    <<TxOutput(0 - 10, to), TxOutput(out.value + 10, out.address)>>
              [] OTHER -> <<TxOutput(out.value, to)>>
    IN  Transaction(inputs, outputs, FALSE, now)

MissingKey == <<tx_compute_hash(create_coinbase("nobody", BLOCK_REWARD, GenesisTime)), 0>>

GenesisTxid == GenesisBlock.transactions[1].txid

PlainTxs(now) == <<create_coinbase("addrA", BLOCK_REWARD, now)>>

\* Coinbase-only blocks a peer can send: one that pays twice the reward, and
\* one whose coinbase is the genesis coinbase again (same address, same second).
OddCoinbaseLists ==
    { <<create_coinbase("addrA", 2 * BLOCK_REWARD, GenesisTime)>>,
      <<create_coinbase("genesis_miner", BLOCK_REWARD, GenesisTime)>> }

MissingSpendList(now) ==
    PlainTxs(now) \o
    <<SpendTx(MissingKey, TxOutput(BLOCK_REWARD, "addrA"), "fee", "addrB", now)>>

\* The outputs the spending transactions refer to: "addrB" only receives.
Spendable(utxo) == {k \in DOMAIN utxo : utxo[k].address # "addrB"}

SpendLists(utxo, now) ==
    {PlainTxs(now) \o <<SpendTx(k, utxo[k], v, "addrB", now)>> :
        k \in Spendable(utxo), v \in SpendVariants}
    \cup {MissingSpendList(now)}
    \cup {PlainTxs(now) \o <<SpendTx(k, utxo[k], "fee", "addrB", now),
                              SpendTx(k, utxo[k], "fee", "addrA", now)>> :
             k \in Spendable(utxo)}

\* The proof-of-work search of the miner: nonces from 0 until the prefix shows.
RECURSIVE MineFrom(_, _)
MineFrom(block, nonce) ==
    LET b == [block EXCEPT !.nonce = nonce]
    IN  IF StartsWithDifficultyPrefix(compute_hash(b)) THEN nonce
        ELSE MineFrom(block, nonce + 1)

Defects == {"none", "prev_hash", "index", "difficulty", "hash"}

BuildBlock(prev_block, transactions, now, defect) ==
    LET b0 == Block(IF defect = "index" THEN 0 ELSE prev_block.index + 1,
                    IF defect = "prev_hash" THEN ZeroHash ELSE prev_block.hash,
                    transactions, 0, now, ZeroHash)
        good == MineFrom(b0, 0)
        b1 == [b0 EXCEPT !.nonce = IF defect = "difficulty" THEN good + 1 ELSE good]
    IN  [b1 EXCEPT !.hash = IF defect = "hash" THEN ZeroHash ELSE compute_hash(b1)]

DefectiveBlocks(prev_block) ==
    {BuildBlock(prev_block, PlainTxs(GenesisTime), GenesisTime, d) : d \in Defects \ {"none"}}

CandidateBlocks(prev_block, utxo) ==
    {BuildBlock(prev_block, PlainTxs(now), now, "none") : now \in Times}
    \cup {BuildBlock(prev_block, txs, GenesisTime, "none") :
             txs \in OddCoinbaseLists \cup SpendLists(utxo, GenesisTime)}
    \cup DefectiveBlocks(prev_block)

\* The last block of a chain a peer sends.
TailBlocks(prev_block, utxo) ==
    {BuildBlock(prev_block, txs, GenesisTime, "none") :
        txs \in {PlainTxs(GenesisTime), MissingSpendList(GenesisTime)} \cup OddCoinbaseLists}
    \cup {BuildBlock(prev_block,
                     PlainTxs(GenesisTime) \o <<SpendTx(k, utxo[k], "fee", "addrB", GenesisTime)>>,
                     GenesisTime, "none") : k \in Spendable(utxo)}
    \cup DefectiveBlocks(prev_block)

\* The blocks a candidate chain carries below its last block.
MiddleBlock(prev_block) ==
    BuildBlock(prev_block, PlainTxs(GenesisTime), GenesisTime, "none")

\* The chains longer than `longer` that extend `base` by at most `room` blocks.
RECURSIVE Extensions(_, _, _)
Extensions(base, room, longer) ==
    IF room <= 0 THEN {}
    ELSE (IF Len(base) + 1 > longer
          THEN {Append(base, b) :
                   b \in TailBlocks(last_block(base), RebuildUtxo(EmptyUtxo, base))}
          ELSE {})
         \cup Extensions(Append(base, MiddleBlock(last_block(base))), room - 1, longer)

\* A genesis block of another node: created at another time, or the local
\* one with another stored hash.
ForeignGenesis ==
    { [GenesisBlock EXCEPT !.hash = ZeroHash],
      LET b == [GenesisBlock EXCEPT !.timestamp = GenesisTime + 1]
      IN  [b EXCEPT !.hash = compute_hash(b)] }

CandidateChains(local_chain) ==
    LET bases == {SubSeq(local_chain, 1, k) : k \in 1..Len(local_chain)}
    IN  bases
        \cup UNION {Extensions(base, MaxChain - Len(base), Len(local_chain)) :
                      base \in bases}
        \cup UNION {{<<g>>, <<g, MiddleBlock(g)>>} : g \in ForeignGenesis}

\* The chains a peer handler thread is handed: the local chain itself, the
\* longer chains of plain blocks on a prefix of it, and such a chain with a
\* last block whose stored hash is wrong.
RECURSIVE PlainExtensions(_, _, _)
PlainExtensions(base, room, longer) ==
    IF room <= 0 THEN {}
    ELSE LET next == Append(base, MiddleBlock(last_block(base)))
             bad == Append(base, BuildBlock(last_block(base), PlainTxs(GenesisTime),
                                            GenesisTime, "hash"))
         IN  (IF Len(next) > longer THEN {next, bad} ELSE {})
             \cup PlainExtensions(next, room - 1, longer)

PeerChains(local_chain) ==
    {local_chain}
    \cup UNION {PlainExtensions(SubSeq(local_chain, 1, k), MaxChain - k, Len(local_chain)) :
                  k \in 1..Len(local_chain)}

Addresses == {"genesis_miner", "addrA", "addrB"}

NoBlock == Block(0, ZeroHash, << >>, 0, 0, ZeroHash)

NoObservation == [seen |-> FALSE, chain |-> << >>, address |-> "", balance |-> 0]

\* chain, utxo_set: the fields of the Blockchain; disk: the snapshot file;
\* ret: the operation last run to its end and what it returned.
\* pc: where the miner thread is in add_block or in its loop, where a peer
\* handler thread is in replace_chain, whether the server thread of the P2P
\* node is in its accept loop, and whether the main thread serves the API; m_block, p_chain, p_i: their arguments and the loop
\* position of the rebuild; obs: what a reader of the API last saw.
\* mempool: the values of Mempool.transactions in insertion order; arg: the
\* argument of the operation last run; active_peers: the sockets the node
\* opened, by peer; open: the connections a handle_client thread reads;
\* outbox: what the operation last run sent, socket by socket; stream: the
\* bytes a peer sent that recv() has not returned yet; dispatched: the
\* messages handle_client handed to handle_message, in order; stop: the
\* _stop flags of the Miner and of the P2PNode.
VARIABLES chain, utxo_set, disk, ret, pc, m_block, p_chain, p_i, obs,
          mempool, arg, active_peers, open, outbox, stream, dispatched, stop

ledger == <<chain, utxo_set, disk>>

threads == <<pc, m_block, p_chain, p_i, obs>>

node == <<mempool, arg, active_peers, open, outbox, stop>>

wire == <<stream, dispatched>>

vars == <<chain, utxo_set, disk, ret, pc, m_block, p_chain, p_i, obs,
          mempool, arg, active_peers, open, outbox, stream, dispatched, stop>>

Result(op, result, reason) == [op |-> op, result |-> result, reason |-> reason]

NoArg == [op |-> "init"]

\* Blockchain(), and the threads before their first call; nothing has asked
\* the miner or the P2P node to stop.
InitLedger ==
    /\ chain = <<GenesisBlock>>
    /\ utxo_set = update_utxo_set(EmptyUtxo, GenesisBlock)
    /\ disk = NoFile
    /\ ret = Result("init", TRUE, "none")
    /\ pc = [miner |-> "idle", peer |-> "idle", server |-> "accept", main |-> "run"]
    /\ m_block = NoBlock
    /\ p_chain = << >>
    /\ p_i = 0
    /\ obs = NoObservation
    /\ stop = [miner |-> FALSE, p2p |-> FALSE]

\* Mempool() and P2PNode() with no peer configured and nobody connected.
InitAlone ==
    /\ mempool = << >>
    /\ arg = NoArg
    /\ active_peers = << >>
    /\ open = {}
    /\ outbox = << >>

InitNoStream ==
    /\ stream = << >>
    /\ dispatched = << >>

Init == InitLedger /\ InitAlone /\ InitNoStream

\* add_block that appends the block before it validates it.
add_block_append_first(block) ==
    IF ~is_valid_new_block(block, last_block(chain), utxo_set)
    THEN /\ chain' = Append(chain, block)
         /\ ret' = Result("add_block", FALSE, RejectReason(block, last_block(chain), utxo_set))
         /\ UNCHANGED <<utxo_set, disk>>
    ELSE /\ chain' = Append(chain, block)
         /\ utxo_set' = update_utxo_set(utxo_set, block)
         /\ \E saved \in BOOLEAN :
                disk' = IF saved THEN save_to_disk(chain', utxo_set') ELSE disk
         /\ ret' = Result("add_block", TRUE, "none")

add_block(block) ==
    IF ~is_valid_new_block(block, last_block(chain), utxo_set)
    THEN /\ ret' = Result("add_block", FALSE, RejectReason(block, last_block(chain), utxo_set))
         /\ UNCHANGED <<chain, utxo_set, disk>>
    ELSE /\ chain' = Append(chain, block)
         /\ utxo_set' = update_utxo_set(utxo_set, block)
         /\ \E saved \in BOOLEAN :
                disk' = IF saved THEN save_to_disk(chain', utxo_set') ELSE disk
         /\ ret' = Result("add_block", TRUE, "none")

AddBlock ==
    /\ Len(chain) < MaxChain
    /\ \E block \in CandidateBlocks(last_block(chain), utxo_set) : add_block(block)
    /\ UNCHANGED <<threads, node, wire>>

\* The rebuild without the reset of the index to {}.
rebuilt_without_reset(old_utxo, new_chain) == RebuildUtxo(old_utxo, new_chain)

rebuilt_utxo_set(old_utxo, new_chain) == RebuildUtxo(EmptyUtxo, new_chain)

\* replace_chain that also takes a chain as long as the current one.
replace_chain_accepts_equal(new_chain) ==
    IF Len(new_chain) < Len(chain)
    THEN /\ ret' = Result("replace_chain", FALSE, "not longer")
         /\ UNCHANGED <<chain, utxo_set, disk>>
    ELSE IF ~is_valid_chain(new_chain, chain)
    THEN /\ ret' = Result("replace_chain", FALSE, "invalid")
         /\ UNCHANGED <<chain, utxo_set, disk>>
    ELSE /\ chain' = new_chain
         /\ utxo_set' = rebuilt_utxo_set(utxo_set, new_chain)
         /\ ret' = Result("replace_chain", TRUE, "none")
         /\ UNCHANGED disk

replace_chain(new_chain) ==
    IF Len(new_chain) <= Len(chain)
    THEN /\ ret' = Result("replace_chain", FALSE, "not longer")
         /\ UNCHANGED <<chain, utxo_set, disk>>
    ELSE IF ~is_valid_chain(new_chain, chain)
    THEN /\ ret' = Result("replace_chain", FALSE, "invalid")
         /\ UNCHANGED <<chain, utxo_set, disk>>
    ELSE /\ chain' = new_chain
         /\ utxo_set' = rebuilt_utxo_set(utxo_set, new_chain)
         /\ ret' = Result("replace_chain", TRUE, "none")
         /\ UNCHANGED disk

ReplaceChain ==
    /\ \E new_chain \in CandidateChains(chain) : replace_chain(new_chain)
    /\ UNCHANGED <<threads, node, wire>>

Next == AddBlock \/ ReplaceChain

Spec == Init /\ [][Next]_vars

\* ------------------------------------------------------------ the threads
\* The same operations run by threads that share the Blockchain object with
\* no lock: a step is one statement of add_block or replace_chain.

\* api.get_chain and api.get_balance(address), read in one go.
Read ==
    /\ \E a \in Addresses :
           obs' = [seen |-> TRUE, chain |-> chain, address |-> a,
                   balance |-> get_balance(utxo_set, a)]
    /\ UNCHANGED <<chain, utxo_set, disk, ret, pc, m_block, p_chain, p_i>>
    /\ UNCHANGED <<node, wire>>

\* The miner calls add_block with the block it mined on the tip.
MinerCall ==
    /\ pc.miner = "idle"
    /\ Len(chain) < MaxChain
    /\ \E now \in Times :
           m_block' = BuildBlock(last_block(chain), PlainTxs(now), now, "none")
    /\ pc' = [pc EXCEPT !.miner = "validate"]
    /\ UNCHANGED <<chain, utxo_set, disk, ret, p_chain, p_i, obs>>
    /\ UNCHANGED <<node, wire>>

\* blockchain.py:69-70
MinerValidate ==
    /\ pc.miner = "validate"
    /\ IF is_valid_new_block(m_block, last_block(chain), utxo_set)
       THEN pc' = [pc EXCEPT !.miner = "append"] /\ UNCHANGED m_block
       ELSE pc' = [pc EXCEPT !.miner = "idle"] /\ m_block' = NoBlock
    /\ UNCHANGED <<chain, utxo_set, disk, ret, p_chain, p_i, obs>>
    /\ UNCHANGED <<node, wire>>

\* blockchain.py:72
MinerAppend ==
    /\ pc.miner = "append"
    /\ chain' = Append(chain, m_block)
    /\ pc' = [pc EXCEPT !.miner = "update"]
    /\ UNCHANGED <<utxo_set, disk, ret, m_block, p_chain, p_i, obs>>
    /\ UNCHANGED <<node, wire>>

\* blockchain.py:73
MinerUpdate ==
    /\ pc.miner = "update"
    /\ utxo_set' = update_utxo_set(utxo_set, m_block)
    /\ pc' = [pc EXCEPT !.miner = "save"]
    /\ UNCHANGED <<chain, disk, ret, m_block, p_chain, p_i, obs>>
    /\ UNCHANGED <<node, wire>>

\* blockchain.py:74-75
MinerSave ==
    /\ pc.miner = "save"
    /\ \E saved \in BOOLEAN :
           disk' = IF saved THEN save_to_disk(chain, utxo_set) ELSE disk
    /\ pc' = [pc EXCEPT !.miner = "idle"]
    /\ m_block' = NoBlock
    /\ UNCHANGED <<chain, utxo_set, ret, p_chain, p_i, obs>>
    /\ UNCHANGED <<node, wire>>

\* A peer handler calls replace_chain; blockchain.py:191-192
PeerCall ==
    /\ pc.peer = "idle"
    /\ \E new_chain \in PeerChains(chain) :
           IF Len(new_chain) <= Len(chain)
           THEN UNCHANGED <<pc, p_chain>>
           ELSE pc' = [pc EXCEPT !.peer = "valid"] /\ p_chain' = new_chain
    /\ UNCHANGED <<chain, utxo_set, disk, ret, m_block, p_i, obs>>
    /\ UNCHANGED <<node, wire>>

\* blockchain.py:194-195
PeerValid ==
    /\ pc.peer = "valid"
    /\ IF is_valid_chain(p_chain, chain)
       THEN pc' = [pc EXCEPT !.peer = "assign"] /\ UNCHANGED p_chain
       ELSE pc' = [pc EXCEPT !.peer = "idle"] /\ p_chain' = << >>
    /\ UNCHANGED <<chain, utxo_set, disk, ret, m_block, p_i, obs>>
    /\ UNCHANGED <<node, wire>>

\* blockchain.py:198
PeerAssign ==
    /\ pc.peer = "assign"
    /\ chain' = p_chain
    /\ pc' = [pc EXCEPT !.peer = "clear"]
    /\ UNCHANGED <<utxo_set, disk, ret, m_block, p_chain, p_i, obs>>
    /\ UNCHANGED <<node, wire>>

\* blockchain.py:201
PeerClear ==
    /\ pc.peer = "clear"
    /\ utxo_set' = EmptyUtxo
    /\ p_i' = 1
    /\ pc' = [pc EXCEPT !.peer = "rebuild"]
    /\ UNCHANGED <<chain, disk, ret, m_block, p_chain, obs>>
    /\ UNCHANGED <<node, wire>>

\* blockchain.py:209-212: the loop runs over the list that self.chain now is,
\* the one the miner appends to.
PeerRebuild ==
    /\ pc.peer = "rebuild"
    /\ IF p_i <= Len(chain)
       THEN /\ utxo_set' = update_utxo_set(utxo_set, chain[p_i])
            /\ p_i' = p_i + 1
            /\ UNCHANGED <<pc, p_chain>>
       ELSE /\ pc' = [pc EXCEPT !.peer = "idle"]
            /\ p_chain' = << >>
            /\ p_i' = 0
            /\ UNCHANGED utxo_set
    /\ UNCHANGED <<chain, disk, ret, m_block, obs>>
    /\ UNCHANGED <<node, wire>>

Miner == MinerCall \/ MinerValidate \/ MinerAppend \/ MinerUpdate \/ MinerSave

Peer == PeerCall \/ PeerValid \/ PeerAssign \/ PeerClear \/ PeerRebuild

\* A reader of the API while a peer handler replaces the chain.
NextReader == Peer \/ Read

SpecReader == Init /\ [][NextReader]_vars

\* The miner thread and a peer handler thread.
NextThreads == Miner \/ Peer

SpecThreads == Init /\ [][NextThreads]_vars

\* ------------------------------------------------------------- the mempool
\* The transactions handed to the mempool on the genesis output: a spend with
\* change, a second spend of the same output, a spend that pays more than
\* the output holds, a spend of an output nobody has, and a Transaction
\* object whose txid field is the one of another transaction.
GenesisKey == <<GenesisTxid, 0>>

GenesisOut == TxOutput(BLOCK_REWARD, "genesis_miner")

PoolTxs ==
    LET first == SpendTx(GenesisKey, GenesisOut, "change", "addrB", GenesisTime)
        second == SpendTx(GenesisKey, GenesisOut, "fee", "addrA", GenesisTime)
    IN  { first, second,
          SpendTx(GenesisKey, GenesisOut, "overspend", "addrB", GenesisTime),
          SpendTx(MissingKey, TxOutput(BLOCK_REWARD, "addrA"), "fee", "addrB", GenesisTime),
          [second EXCEPT !.txid = first.txid] }

AddTransaction ==
    /\ \E tx \in PoolTxs :
           LET r == add_transaction(mempool, tx)
           IN  /\ Len(r.transactions) <= MaxPool
               /\ mempool' = r.transactions
               /\ ret' = Result("add_transaction", r.result, "none")
               /\ arg' = [op |-> "add_transaction", tx |-> tx]
    /\ UNCHANGED <<stop, ledger, threads, active_peers, open, outbox, wire>>

RemoveTransaction ==
    /\ \E txid \in Txids(mempool) \cup {GenesisTxid} :
           /\ mempool' = remove_transaction(mempool, txid)
           /\ ret' = Result("remove_transaction", TRUE, "none")
           /\ arg' = [op |-> "remove_transaction", txid |-> txid]
    /\ UNCHANGED <<stop, ledger, threads, active_peers, open, outbox, wire>>

\* The limits get_transactions is called with: none (api.get_mempool), the
\* 10 of the miner, and small ones.
Limits == {0, 1, 2, 10}

GetTransactions ==
    /\ \E limit \in Limits :
           /\ ret' = Result("get_transactions", TRUE, "none")
           /\ arg' = [op |-> "get_transactions", limit |-> limit,
                      txs |-> get_transactions(mempool, limit)]
    /\ UNCHANGED <<stop, ledger, threads, mempool, active_peers, open, outbox, wire>>

NextMempool == AddTransaction \/ RemoveTransaction \/ GetTransactions

SpecMempool == Init /\ [][NextMempool]_vars

\* ---------------------------------------------------------------- the node
\* One node with its API, its miner and its peer connections, each handler
\* run to its end before the next.
Peers == {"peerB", "peerC"}

Conn(peer, outbound) == [peer |-> peer, outbound |-> outbound]

Range(seq) == {seq[i] : i \in 1..Len(seq)}

\* The sockets of active_peers that handle_client has closed: sendall raises.
Down == {p \in Range(active_peers) : Conn(p, TRUE) \notin open}

\* The connections of the node: "peerC" is configured as a peer and the node
\* connected to it; "peerB" connected to the listening socket of the node.
Conns == {Conn("peerB", FALSE), Conn("peerC", TRUE)}

\* After P2PNode.start() and the accept of the connection of "peerB".
InitNode ==
    /\ InitLedger
    /\ InitNoStream
    /\ mempool = << >>
    /\ arg = NoArg
    /\ outbox = << >>
    /\ active_peers = <<"peerC">>
    /\ open = Conns

RECURSIVE FlatTxs(_)
FlatTxs(c) == IF c = << >> THEN << >> ELSE Head(c).transactions \o FlatTxs(Tail(c))

\* utxo_set.items() filtered by address: the dict holds the keys in the
\* order the chain made them.
RECURSIVE OwnedKeys(_, _, _, _)
OwnedKeys(txs, utxo, address, seen) ==
    IF txs = << >> THEN << >>
    ELSE LET tx == Head(txs)
             keys == [i \in 1..Len(tx.outputs) |-> <<tx.txid, i - 1>>]
             mine == SelectSeq(keys, LAMBDA k : /\ k \in DOMAIN utxo
                                                /\ k \notin seen
                                                /\ utxo[k].address = address)
         IN  mine \o OwnedKeys(Tail(txs), utxo, address, seen \cup Range(keys))

send_coins_tx(keys, utxo, private_key, to_address, amount, now) ==
    LET from_address == pubkey_to_address(private_key)
        inputs == [i \in 1..Len(keys) |->
                      TxInput(keys[i][1], keys[i][2],
                              sign_data(private_key, keys[i][1]), private_key)]
        change == SumInputs(inputs, utxo) - amount
        outputs == <<TxOutput(amount, to_address)>>
                   \o (IF change > 0 THEN <<TxOutput(change, from_address)>> ELSE << >>)
    IN  Transaction(inputs, outputs, FALSE, now)

Amounts == {20, 30}

\* POST /send with the key of "addrA".
SendCoins ==
    /\ \E amount \in Amounts, now \in {GenesisTime} :
           LET keys == OwnedKeys(FlatTxs(chain), utxo_set, pubkey_to_address("pkA"), {})
               input_sum == SumOutputs([i \in 1..Len(keys) |-> utxo_set[keys[i]]])
               tx == send_coins_tx(keys, utxo_set, "pkA", "addrB", amount, now)
               r == add_transaction(mempool, tx)
               b == broadcast(active_peers, Down, new_tx_message(tx))
           IN  IF input_sum < amount
               THEN /\ ret' = Result("send_coins", FALSE, "Insufficient balance")
                    /\ arg' = [op |-> "send_coins"]
                    /\ outbox' = << >>
                    /\ UNCHANGED <<mempool, active_peers>>
               ELSE /\ Len(r.transactions) <= MaxPool
                    /\ mempool' = r.transactions
                    /\ arg' = [op |-> "send_coins", tx |-> tx]
                    /\ IF r.result
                       THEN /\ ret' = Result("send_coins", TRUE, "none")
                            /\ active_peers' = b.active_peers
                            /\ outbox' = b.sent
                       ELSE /\ ret' = Result("send_coins", FALSE, "Transaction rejected")
                            /\ outbox' = << >>
                            /\ UNCHANGED active_peers
    /\ UNCHANGED <<stop, ledger, threads, open, wire>>

RECURSIVE remove_all(_, _)
remove_all(transactions, txs) ==
    IF txs = << >> THEN transactions
    ELSE remove_all(remove_transaction(transactions, Head(txs).txid), Tail(txs))

\* One turn of the loop of mine_forever, for the miner address "addrA".
MineBlock ==
    /\ Len(chain) < MaxChain
    /\ \E now \in Times :
           LET txs == get_transactions(mempool, 10)
               new_block == BuildBlock(last_block(chain), PlainTxs(now) \o txs, now, "none")
               b == broadcast(active_peers, Down, new_block_message(new_block))
           IN  /\ add_block(new_block)
               /\ arg' = [op |-> "mine_forever", block |-> new_block]
               /\ IF ret'.result
                  THEN /\ mempool' = remove_all(mempool, txs)
                       /\ active_peers' = b.active_peers
                       /\ outbox' = b.sent
                  ELSE /\ outbox' = << >>
                       /\ UNCHANGED <<mempool, active_peers>>
    /\ UNCHANGED <<stop, threads, open, wire>>

\* The exception that leaves handle_message(msg) for a dict msg, if any:
\* .get() on the None of a missing 'tx' or 'block', the loop over the None
\* of a missing 'chain', a subscript with a missing key.
handle_error(msg) ==
    LET msg_type == IF "type" \in DOMAIN msg THEN msg.type ELSE "None"
    IN  IF msg_type = "NEW_TX" /\ "tx" \notin DOMAIN msg THEN "AttributeError"
        ELSE IF msg_type = "NEW_BLOCK" /\ "block" \notin DOMAIN msg THEN "AttributeError"
        ELSE IF msg_type = "SEND_CHAIN" THEN ReconstructError(msg)
        ELSE "none"

Handled == Result("handle_message", TRUE, "none")

\* handle_message(msg) for a dict msg.
handle_message(msg) ==
    LET msg_type == IF "type" \in DOMAIN msg THEN msg.type ELSE "None"
        sent == broadcast(active_peers, Down, send_chain_message(chain))
    IN  IF handle_error(msg) # "none"
        THEN /\ ret' = Result("handle_message", FALSE, handle_error(msg))
             /\ outbox' = << >>
             /\ UNCHANGED <<ledger, mempool, active_peers>>
        ELSE IF msg_type = "REQUEST_CHAIN"
        THEN /\ ret' = Handled
             /\ active_peers' = sent.active_peers
             /\ outbox' = sent.sent
             /\ UNCHANGED <<ledger, mempool>>
        ELSE IF msg_type = "SEND_CHAIN"
        THEN /\ replace_chain(chain_from_dicts(msg.chain))
             /\ outbox' = << >>
             /\ UNCHANGED <<mempool, active_peers>>
        ELSE /\ ret' = Handled
             /\ outbox' = << >>
             /\ UNCHANGED <<ledger, mempool, active_peers>>

\* handle_message for a message of a peer; a peer that is not connected
\* connects to the listening socket first.
Receive(peer, msg) ==
    /\ handle_message(msg)
    /\ arg' = [op |-> "handle_message", peer |-> peer, msg |-> msg]
    /\ UNCHANGED <<stop, threads, open, wire>>

\* What a peer announces: a transfer of the genesis output.
PeerTxs == {SpendTx(GenesisKey, GenesisOut, "change", "addrB", GenesisTime)}

\* The block a peer mines on a tip with the transactions it has heard of.
PeerBlock(prev_block, txs, defect) ==
    BuildBlock(prev_block,
               <<create_coinbase("addrB", BLOCK_REWARD, GenesisTime)>> \o txs,
               GenesisTime, defect)

\* A block whose coinbase carries the txid of the genesis coinbase.
ForgedTxidBlock(prev_block) ==
    BuildBlock(prev_block,
               <<[create_coinbase("addrB", BLOCK_REWARD, GenesisTime)
                     EXCEPT !.txid = GenesisTxid]>>,
               GenesisTime, "none")

\* The chains of the peers of a node: the local chain, and the local chain
\* with one more block: mined by a peer with the transactions the node
\* announced, with a stored hash that is wrong, or with a stored txid that
\* is not the hash of the transaction.
NodePeerChains(local_chain, pool) ==
    {local_chain}
    \cup (IF Len(local_chain) < MaxChain
          THEN {Append(local_chain, PeerBlock(last_block(local_chain), pool, "none")),
                Append(local_chain, PeerBlock(last_block(local_chain), << >>, "hash")),
                Append(local_chain, ForgedTxidBlock(last_block(local_chain)))}
          ELSE {})

\* handle_message is not told the connection: the sender only matters to
\* what the sender expects back.  Transactions and chains come from the
\* configured peer, requests and blocks from both.
ReceiveNewTx == \E tx \in PeerTxs : Receive("peerC", new_tx_message(tx))

ReceiveNewBlock ==
    \E peer \in Peers, defect \in {"none", "prev_hash"} :
        Receive(peer, new_block_message(PeerBlock(last_block(chain), << >>, defect)))

ReceiveRequestChain == \E peer \in Peers : Receive(peer, request_chain_message)

\* SEND_CHAIN as send_chain writes it, and with the 'txid' keys the handler reads.
ReceiveSendChain ==
    \E peer_chain \in NodePeerChains(chain, mempool) :
        \/ /\ \A i \in 1..Len(peer_chain) : peer_chain[i].hash = compute_hash(peer_chain[i])
           /\ Receive("peerC", send_chain_message(peer_chain))
        \/ Receive("peerC", chain_message_with_txids(peer_chain))

NextNode ==
    \/ SendCoins
    \/ MineBlock
    \/ ReceiveNewTx
    \/ ReceiveNewBlock
    \/ ReceiveRequestChain
    \/ ReceiveSendChain

SpecNode == InitNode /\ [][NextNode]_vars

\* ------------------------------------------------------- the byte stream
\* handle_client on the connection of "peerB".  The bytes of a message are
\* an opening token, a token for what is between, and a closing token; a
\* message is followed by a newline.  The messages are those whose handling
\* leaves the ledger alone: REQUEST_CHAIN, NEW_TX, one of an unknown type,
\* NEW_TX without 'tx', SEND_CHAIN without 'chain', a JSON list, and text
\* that is not JSON.
GoodIds == {"REQUEST_CHAIN", "NEW_TX", "PING"}

DictIds == GoodIds \cup {"NEW_TX_no_tx", "SEND_CHAIN_no_chain"}

WireIds == DictIds \cup {"list", "garbage"}

Message(id) ==
    CASE id = "REQUEST_CHAIN" -> request_chain_message
      [] id = "NEW_TX" -> new_tx_message(CHOOSE tx \in PeerTxs : TRUE)
      [] OTHER -> [type |-> IF id = "NEW_TX_no_tx" THEN "NEW_TX"
                            ELSE IF id = "SEND_CHAIN_no_chain" THEN "SEND_CHAIN"
                            ELSE id]

\* json.dumps(message) + "\n", and what a peer can write instead.
Text(id) ==
    (CASE id = "list" -> <<"[", "]">>
       [] id = "garbage" -> <<"x">>
       [] OTHER -> <<"{", id, "}">>) \o <<"\n">>

\* json.loads: the kind of value, or JSONDecodeError.
loads(msg_str) ==
    IF Len(msg_str) = 3 /\ msg_str[1] = "{" /\ msg_str[3] = "}" /\ msg_str[2] \in DictIds
    THEN [kind |-> "dict", id |-> msg_str[2]]
    ELSE IF msg_str = <<"[", "]">> THEN [kind |-> "list", id |-> "list"]
    ELSE [kind |-> "JSONDecodeError", id |-> "none"]

RECURSIVE strip(_)
strip(data) ==
    IF data = << >> THEN data
    ELSE IF Head(data) = "\n" THEN strip(Tail(data))
    ELSE IF data[Len(data)] = "\n" THEN strip(SubSeq(data, 1, Len(data) - 1))
    ELSE data

\* data.split('\n'), the last piece in `piece`.
RECURSIVE split(_, _)
split(data, piece) ==
    IF data = << >> THEN <<piece>>
    ELSE IF Head(data) = "\n" THEN <<piece>> \o split(Tail(data), << >>)
    ELSE split(Tail(data), Append(piece, Head(data)))

\* The loop over the pieces of one read: the messages handed to
\* handle_message and the exception that ended the loop, if any.
RECURSIVE dispatch(_, _)
dispatch(messages, log) ==
    IF messages = << >> THEN [dispatched |-> log, error |-> "none"]
    ELSE LET msg == loads(Head(messages))
             error == IF msg.kind = "list" THEN "AttributeError"
                      ELSE handle_error(Message(msg.id))
         IN  IF Head(messages) = << >> \/ msg.kind = "JSONDecodeError"
             THEN dispatch(Tail(messages), log)
             ELSE IF error # "none"
             THEN [dispatched |-> Append(log, msg.id), error |-> error]
             ELSE dispatch(Tail(messages), Append(log, msg.id))

RECURSIVE Streams(_)
Streams(n) ==
    IF n = 0 THEN {[ids |-> << >>, bytes |-> << >>]}
    ELSE Streams(n - 1)
         \cup {[ids |-> Append(st.ids, id), bytes |-> st.bytes \o Text(id)] :
                  st \in Streams(n - 1), id \in WireIds}

\* "peerB" has connected and written its messages; arg holds what it wrote.
InitStream ==
    /\ InitLedger
    /\ mempool = << >>
    /\ active_peers = <<"peerC">>
    /\ open = Conns
    /\ outbox = << >>
    /\ dispatched = << >>
    /\ \E st \in Streams(MaxMessages) :
           /\ stream = st.bytes
           /\ arg = [op |-> "handle_client", peer |-> "peerB", sent |-> st.ids]

\* One turn of the loop of handle_client: recv() returns the next n bytes.
Recv ==
    /\ Conn("peerB", FALSE) \in open
    /\ \E n \in 1..Len(stream) :
           LET data == SubSeq(stream, 1, n)
               run == dispatch(split(strip(data), << >>), << >>)
               replies == SelectSeq(run.dispatched, LAMBDA id : id = "REQUEST_CHAIN")
               sent == broadcast(active_peers, Down, send_chain_message(chain))
           IN  /\ stream' = SubSeq(stream, n + 1, Len(stream))
               /\ dispatched' = dispatched \o run.dispatched
               /\ ret' = Result("handle_client", run.error = "none", run.error)
               /\ open' = IF run.error = "none" THEN open
                          ELSE open \ {Conn("peerB", FALSE)}
               /\ outbox' = IF replies = << >> THEN << >> ELSE sent.sent
               /\ active_peers' = IF replies = << >> THEN active_peers
                                  ELSE sent.active_peers
    /\ UNCHANGED <<stop, ledger, threads, mempool, arg>>

NextStream == Recv

SpecStream == InitStream /\ [][NextStream]_vars

\* ------------------------------------------------------------ the broadcast

BroadcastPeers == {"peerB", "peerC", "peerD"}

\* The configured peer list, in every order.
PeerLists ==
    {l \in {<<a, b, c>> : a \in BroadcastPeers, b \in BroadcastPeers,
                          c \in BroadcastPeers} : Range(l) = BroadcastPeers}

InList(l, up) == SelectSeq(l, LAMBDA p : p \in up)

\* connect_to_peers(), run once by start(): every configured peer that accepts
\* the connection joins active_peers, in the configured order, and is asked for
\* its chain.
ConnectToPeers ==
    /\ arg.op = "init"
    /\ \E peers \in PeerLists, up \in SUBSET BroadcastPeers :
         /\ active_peers' = active_peers \o InList(peers, up)
         /\ open' = open \cup {Conn(p, TRUE) : p \in up}
         /\ outbox' = [i \in 1..Len(InList(peers, up)) |->
                           [to |-> InList(peers, up)[i], msg |-> request_chain_message]]
         /\ arg' = [op |-> "connect_to_peers", peers |-> peers]
    /\ ret' = Result("connect_to_peers", TRUE, "none")
    /\ UNCHANGED <<stop, ledger, threads, mempool, wire>>

\* send_chain(): broadcast() of the chain, while sendall raises on the sockets
\* of `down`.
Broadcast ==
    /\ arg.op # "init"
    /\ \E down \in SUBSET Range(active_peers) :
         LET b == broadcast(active_peers, down, send_chain_message(chain))
         IN  /\ active_peers' = b.active_peers
             /\ outbox' = b.sent
             /\ open' = open \ {Conn(p, TRUE) : p \in down}
             /\ arg' = [op |-> "broadcast", peers |-> active_peers, down |-> down]
    /\ ret' = Result("broadcast", TRUE, "none")
    /\ UNCHANGED <<stop, ledger, threads, mempool, wire>>

NextBroadcast == ConnectToPeers \/ Broadcast

SpecBroadcast == Init /\ [][NextBroadcast]_vars

\* -------------------------------------------------------------- the restart

\* Blockchain() of a node started again on the same data directory:
\* load_from_disk() when the snapshot file exists, create_genesis_block() when
\* it does not (the genesis block is not written to disk).
Restart ==
    /\ IF disk.exists
       THEN /\ chain' = disk.chain
            /\ utxo_set' = disk.utxo_set
       ELSE /\ chain' = <<GenesisBlock>>
            /\ utxo_set' = update_utxo_set(EmptyUtxo, GenesisBlock)
    /\ ret' = Result("__init__", disk.exists, "none")
    /\ UNCHANGED <<disk, threads, node, wire>>

NextRestart == AddBlock \/ ReplaceChain \/ Restart

SpecRestart == Init /\ [][NextRestart]_vars

\* ----------------------------------------------------------- the miner loop

\* miner.py:26-42: the head of the loop of mine_forever, up to the candidate
\* block with nonce 0 on the tip the miner reads.
MinerBuild ==
    /\ pc.miner = "idle"
    /\ ~stop.miner
    /\ \E now \in Times :
           m_block' = Block(last_block(chain).index + 1, last_block(chain).hash,
                            PlainTxs(now) \o get_transactions(mempool, 10),
                            0, now, ZeroHash)
    /\ pc' = [pc EXCEPT !.miner = "pow"]
    /\ UNCHANGED <<ledger, ret, p_chain, p_i, obs, node, wire>>

\* The turn of the proof-of-work loop without the look at the tip.
MinerAttempt_no_tip_check ==
    /\ pc.miner = "pow"
    /\ IF StartsWithDifficultyPrefix(compute_hash(m_block))
       THEN /\ m_block' = [m_block EXCEPT !.hash = compute_hash(m_block)]
            /\ pc' = [pc EXCEPT !.miner = "submit"]
       ELSE /\ m_block' = [m_block EXCEPT !.nonce = m_block.nonce + 1]
            /\ pc' = [pc EXCEPT !.miner = IF stop.miner THEN "stopped" ELSE "pow"]
    /\ UNCHANGED <<ledger, ret, p_chain, p_i, obs, node, wire>>

\* miner.py:45-57 and 71: one turn of the proof-of-work loop. A hash with the
\* prefix ends the search; otherwise the nonce grows, the thread returns when
\* asked to stop, and leaves the loop when the tip has reached the height of
\* the candidate. After the loop the hash is tested once more: with the
\* prefix the block goes to add_block, without it the loop starts again.
MinerAttempt ==
    /\ pc.miner = "pow"
    /\ LET next == [m_block EXCEPT !.nonce = m_block.nonce + 1]
       IN  IF StartsWithDifficultyPrefix(compute_hash(m_block))
           THEN /\ m_block' = [m_block EXCEPT !.hash = compute_hash(m_block)]
                /\ pc' = [pc EXCEPT !.miner = "submit"]
                /\ UNCHANGED <<ret, arg>>
           ELSE IF stop.miner
           THEN /\ m_block' = next
                /\ pc' = [pc EXCEPT !.miner = "stopped"]
                /\ UNCHANGED <<ret, arg>>
           ELSE IF last_block(chain).index < next.index
           THEN /\ m_block' = next
                /\ UNCHANGED <<pc, ret, arg>>
           ELSE IF StartsWithDifficultyPrefix(compute_hash(next))
           THEN /\ m_block' = [next EXCEPT !.hash = compute_hash(next)]
                /\ pc' = [pc EXCEPT !.miner = "submit"]
                /\ UNCHANGED <<ret, arg>>
           ELSE /\ m_block' = next
                /\ pc' = [pc EXCEPT !.miner = "idle"]
                /\ ret' = Result("mine_forever", FALSE, "Chain advanced")
                /\ arg' = [op |-> "mine_forever", block |-> next]
    /\ UNCHANGED <<ledger, p_chain, p_i, obs, mempool, active_peers, open, outbox,
                   stop, wire>>

\* miner.py:61-71: add_block of the mined candidate; when it is accepted its
\* transactions leave the mempool and the block is announced. The chain stops
\* growing at MaxChain blocks; a candidate that add_block rejects is submitted
\* at any length.
MinerSubmit ==
    /\ pc.miner = "submit"
    /\ \/ Len(chain) < MaxChain
       \/ ~is_valid_new_block(m_block, last_block(chain), utxo_set)
    /\ add_block(m_block)
    /\ LET b == broadcast(active_peers, Down, new_block_message(m_block))
       IN  IF ret'.result
           THEN /\ mempool' = remove_all(mempool, Tail(m_block.transactions))
                /\ active_peers' = b.active_peers
                /\ outbox' = b.sent
           ELSE /\ outbox' = << >>
                /\ UNCHANGED <<mempool, active_peers>>
    /\ arg' = [op |-> "mine_forever", block |-> m_block]
    /\ pc' = [pc EXCEPT !.miner = "idle"]
    /\ UNCHANGED <<m_block, p_chain, p_i, obs, open, stop, wire>>

\* A peer handler thread commits a chain with replace_chain while the miner
\* is anywhere in its loop.
PeerReplace ==
    /\ \E new_chain \in PeerChains(chain) : replace_chain(new_chain)
    /\ UNCHANGED <<threads, node, wire>>

NextMiner == MinerBuild \/ MinerAttempt \/ MinerSubmit \/ PeerReplace

SpecMiner == Init /\ [][NextMiner]_vars

\* ----------------------------------------------------- start and shutdown

\* p2p.py:37-39: accept() returns the connection of a peer and a handle_client
\* thread is started on it.
Accept ==
    /\ pc.server = "accept"
    /\ ~stop.p2p
    /\ \E peer \in BroadcastPeers :
         /\ Conn(peer, FALSE) \notin open
         /\ open' = open \cup {Conn(peer, FALSE)}
         /\ arg' = [op |-> "start_server", peer |-> peer]
    /\ ret' = Result("accept", TRUE, "none")
    /\ UNCHANGED <<ledger, threads, mempool, active_peers, outbox, stop, wire>>

\* p2p.py:33-42: accept() raises; the handler of the exception is outside the
\* loop, so start_server prints the error and its thread ends.
AcceptFails ==
    /\ pc.server = "accept"
    /\ ~stop.p2p
    /\ pc' = [pc EXCEPT !.server = "ended"]
    /\ arg' = [op |-> "start_server"]
    /\ ret' = Result("accept", FALSE, "P2P Server error")
    /\ UNCHANGED <<ledger, m_block, p_chain, p_i, obs, mempool, active_peers, open,
                   outbox, stop, wire>>

\* p2p.py:60-81: recv() returns no data, or raises, on the connection of a
\* handle_client thread: the loop ends and the connection is closed.
HandlerEnds ==
    /\ \E conn \in open :
         /\ open' = open \ {conn}
         /\ arg' = [op |-> "handle_client", peer |-> conn.peer]
    /\ ret' = Result("handle_client", TRUE, "none")
    /\ UNCHANGED <<ledger, threads, mempool, active_peers, outbox, stop, wire>>

\* main.py:53-56: KeyboardInterrupt leaves app.run; miner.stop() sets the flag
\* of the miner, nothing sets the flag of the P2P node, and main returns.
Shutdown ==
    /\ pc.main = "run"
    /\ stop' = [stop EXCEPT !.miner = TRUE]
    /\ pc' = [pc EXCEPT !.main = "return"]
    /\ ret' = Result("main", TRUE, "KeyboardInterrupt")
    /\ arg' = [op |-> "main"]
    /\ UNCHANGED <<ledger, m_block, p_chain, p_i, obs, mempool, active_peers, open,
                   outbox, wire>>

\* miner.py:26: the loop of mine_forever ends at its head when the flag is set.
MinerStops ==
    /\ pc.miner = "idle"
    /\ stop.miner
    /\ pc' = [pc EXCEPT !.miner = "stopped"]
    /\ UNCHANGED <<ledger, ret, m_block, p_chain, p_i, obs, node, wire>>

\* main.py:58-59, miner.py:18, p2p.py:23, 39, 53: main has returned and the
\* interpreter exits; every other thread is a daemon thread and ends with it.
Exit ==
    /\ pc.main = "return"
    /\ pc' = [miner |-> "dead", peer |-> "dead", server |-> "dead", main |-> "exited"]
    /\ open' = {}
    /\ ret' = Result("exit", TRUE, "none")
    /\ arg' = [op |-> "exit"]
    /\ UNCHANGED <<ledger, m_block, p_chain, p_i, obs, mempool, active_peers,
                   outbox, stop, wire>>

NextLife ==
    \/ MinerBuild \/ MinerAttempt \/ MinerSubmit \/ MinerStops
    \/ Accept \/ AcceptFails \/ HandlerEnds
    \/ Shutdown \/ Exit

SpecLife == Init /\ [][NextLife]_vars

\* The node of one user and a miner: POST /send while the miner thread is
\* anywhere in its loop.
NextWallet == MinerBuild \/ MinerAttempt \/ MinerSubmit \/ SendCoins

SpecWallet == Init /\ [][NextWallet]_vars

\* ------------------------------------------------------------------ claims
RECURSIVE TotalValue(_, _)
TotalValue(utxo, keys) ==
    IF keys = {} THEN 0
    ELSE LET k == CHOOSE x \in keys : TRUE
         IN  utxo[k].value + TotalValue(utxo, keys \ {k})

InputKeys(tx) == [i \in 1..Len(tx.inputs) |-> <<tx.inputs[i].txid, tx.inputs[i].index>>]

\* The inputs of the non-coinbase transactions of a block, as (tx, input) positions.
SpendPositions(block) ==
    {<<t, i>> \in (1..Len(block.transactions)) \X (1..2) :
        /\ ~block.transactions[t].is_coinbase
        /\ i <= Len(block.transactions[t].inputs)}

RefAt(block, pos) == InputKeys(block.transactions[pos[1]])[pos[2]]

Committed(op) == ret.op = op /\ ret.result

\* C1: the values of the UTXO index add up to BLOCK_REWARD times the number
\* of blocks of the chain.
C1_TotalSupply ==
    TotalValue(utxo_set, DOMAIN utxo_set) = BLOCK_REWARD * Len(chain)

\* C2: a block that add_block accepted has no two inputs that refer to the
\* same output, in one transaction or in two.
C2_NoDoubleSpendInBlock ==
    Committed("add_block") =>
        \A p, q \in SpendPositions(last_block(chain)) :
            p # q => RefAt(last_block(chain), p) # RefAt(last_block(chain), q)

\* Positions of the transactions of the chain, in commit order.
TxPositions == {<<b, t>> \in (1..Len(chain)) \X (1..3) : t <= Len(chain[b].transactions)}

Later(p, q) == q[1] > p[1] \/ (q[1] = p[1] /\ q[2] > p[2])

TxAt(p) == chain[p[1]].transactions[p[2]]

SpentLater(key, p) ==
    \E q \in TxPositions :
        /\ Later(p, q)
        /\ ~TxAt(q).is_coinbase
        /\ \E i \in 1..Len(TxAt(q).inputs) : InputKeys(TxAt(q))[i] = key

\* C3: every output of every committed transaction is either in the UTXO
\* index or referred to by an input of a later committed non-coinbase
\* transaction, and never both.
C3_UnspentXorSpent ==
    \A p \in TxPositions : \A i \in 1..Len(TxAt(p).outputs) :
        LET key == <<TxAt(p).txid, i - 1>>
        IN  (key \in DOMAIN utxo_set) # SpentLater(key, p)

\* C4: add_block commits a block only if every input of its non-coinbase
\* transactions carries a signature over the referenced txid that verifies
\* against the carried pubkey, and the pubkey hashes to the address of the
\* referenced output.
C4_SignaturesChecked ==
    [][(ret'.op = "add_block" /\ ret'.result) =>
          \A p \in SpendPositions(last_block(chain')) :
              LET inp == last_block(chain').transactions[p[1]].inputs[p[2]]
              IN  /\ verify_signature(inp.pubkey, inp.txid, inp.signature)
                  /\ pubkey_to_address(inp.pubkey)
                        = utxo_set[<<inp.txid, inp.index>>].address]_vars

\* C5: every block above the genesis block links to the hash of the block
\* below it, has a hash with the difficulty prefix, and stores the hash
\* compute_hash gives.
C5_ChainLinked ==
    \A h \in 2..Len(chain) :
        /\ chain[h].prev_hash = chain[h - 1].hash
        /\ StartsWithDifficultyPrefix(chain[h].hash)
        /\ chain[h].hash = compute_hash(chain[h])

C5_Witness ==
    /\ Committed("replace_chain")
    /\ Len(chain) = 3
    /\ chain[1].hash # compute_hash(chain[1])

\* C6: an add_block that fails validation returns false and leaves the
\* chain, the UTXO index and the snapshot file as they were.
C6_RejectedBlockNoChange ==
    [][(ret'.op = "add_block" /\ ~ret'.result) =>
          UNCHANGED <<chain, utxo_set, disk>>]_vars

C6_Witness ==
    /\ ret = Result("add_block", FALSE, "Invalid transaction")
    /\ Len(chain) > 1
    /\ disk.exists

\* C7: replace_chain returns true only for a chain that is longer than the
\* current one and that is_valid_chain accepts, and then commits it; when it
\* returns false the chain and the UTXO index are unchanged.
C7_ReplaceOnlyLongerValid ==
    [][ret'.op = "replace_chain" =>
          IF ret'.result
          THEN Len(chain') > Len(chain) /\ is_valid_chain(chain', chain)
          ELSE UNCHANGED <<chain, utxo_set>>]_vars

C7_Witness ==
    /\ ret = Result("replace_chain", FALSE, "invalid")
    /\ Len(chain) = 2

\* The replay of a chain from an empty index, transaction by transaction.
RECURSIVE Replay(_, _, _)
Replay(c, b, t) ==
    IF b = 0 THEN EmptyUtxo
    ELSE IF t = 0 THEN Replay(c, b - 1, IF b = 1 THEN 0 ELSE Len(c[b - 1].transactions))
    ELSE LET before == Replay(c, b, t - 1)
             tx == c[b].transactions[t]
             gone == IF tx.is_coinbase THEN {}
                     ELSE {<<tx.inputs[i].txid, tx.inputs[i].index>> : i \in 1..Len(tx.inputs)}
             made == {<<tx.txid, i>> : i \in 0..(Len(tx.outputs) - 1)}
         IN  [k \in ((DOMAIN before) \ gone) \cup made |->
                 IF k \in made THEN tx.outputs[k[2] + 1] ELSE before[k]]

ReplayOf(c) == Replay(c, Len(c), Len(c[Len(c)].transactions))

\* C8: the UTXO index is the replay of the blocks of the current chain, in
\* order, from an empty index.
C8_UtxoIsReplay == utxo_set = ReplayOf(chain)

C8_Witness ==
    /\ Committed("replace_chain")
    /\ Len(chain) = 3
    /\ Cardinality(DOMAIN utxo_set) >= 3

\* C9: what a reader sees while replace_chain runs is a chain together with
\* the balances of that chain's fully rebuilt UTXO index.
C9_ReaderSeesWholeReplacement ==
    obs.seen => obs.balance = get_balance(ReplayOf(obs.chain), obs.address)

\* C10: when no add_block and no replace_chain is in flight, every block of
\* the chain links to the block below it and the UTXO index is the replay of
\* the chain.
C10_CommitsLinearizable ==
    (pc.miner = "idle" /\ pc.peer = "idle") =>
        /\ \A h \in 2..Len(chain) : chain[h].prev_hash = chain[h - 1].hash
        /\ utxo_set = ReplayOf(chain)

\* C11: every block the miner appends has the index of the tip plus one and
\* the hash of the tip as prev_hash, for the tip the chain has at the moment
\* of the append, whatever a peer handler replaces in between.
C11_MinerAppendsOnTip ==
    [][(pc.miner = "append" /\ pc'.miner = "update") =>
          /\ m_block.index = last_block(chain).index + 1
          /\ m_block.prev_hash = last_block(chain).hash]_vars

\* C20: add_transaction returns false and leaves the mempool as it was
\* exactly when the txid of the transaction is already a key of the mempool;
\* otherwise it returns true and the transaction is the newest entry,
\* whether the transaction is valid or not; the chain and the UTXO index
\* stay as they were in both cases.
C20_AddTransaction ==
    [][ret'.op = "add_transaction" =>
          /\ UNCHANGED <<chain, utxo_set>>
          /\ IF arg'.tx.txid \in Txids(mempool)
             THEN ~ret'.result /\ mempool' = mempool
             ELSE ret'.result /\ mempool' = Append(mempool, arg'.tx)]_vars

\* A transaction refused for its txid although the mempool holds other
\* content under that txid, with a transaction in the mempool that
\* validate_transaction rejects.
C20_Witness ==
    /\ ret = Result("add_transaction", FALSE, "none")
    /\ \A i \in 1..Len(mempool) : mempool[i] # arg.tx
    /\ \E i \in 1..Len(mempool) : ~validate_transaction(mempool[i], utxo_set)

\* The step is handle_message for a message of the given type.
HandledType(a, type) == a.op = "handle_message" /\ a.msg.type = type

\* C12: once a commit is done, by add_block for the block of the miner or by
\* replace_chain for the chain of a SEND_CHAIN message, no transaction of the
\* mempool has the txid of a transaction of the chain.
C12_MempoolHoldsNoCommittedTx ==
    (/\ ret.result
     /\ \/ ret.op = "add_block" /\ arg.op = "mine_forever"
        \/ ret.op = "replace_chain" /\ arg.op = "handle_message")
    => \A i \in 1..Len(mempool) : mempool[i].txid \notin Txids(FlatTxs(chain))

\* C13: for a SEND_CHAIN message that send_chain built from a chain C, the
\* handler does not raise, and calls replace_chain with a chain equal to C
\* in every field of every block and transaction.
C13_SendChainRoundTrip ==
    [][HandledType(arg', "SEND_CHAIN") =>
          \A C \in NodePeerChains(chain, mempool) :
              arg'.msg = send_chain_message(C) =>
                  /\ ret'.op = "replace_chain"
                  /\ chain_from_dicts(arg'.msg.chain) = C]_vars

\* C14: after the node handled a REQUEST_CHAIN of a peer that connected to
\* its listening socket, a SEND_CHAIN message with the chain of the node has
\* been sent to that peer.
C14_RequesterGetsChain ==
    (HandledType(arg, "REQUEST_CHAIN") /\ Conn(arg.peer, FALSE) \in open) =>
        \E i \in 1..Len(outbox) :
            /\ outbox[i].to = arg.peer
            /\ outbox[i].msg = send_chain_message(chain)

\* C15: handling NEW_BLOCK appends a block that is_valid_new_block accepts on
\* the local tip, and sends REQUEST_CHAIN to the announcing peer for a block
\* whose prev_hash is not the hash of the local tip.
C15_NewBlockHandled ==
    [][(HandledType(arg', "NEW_BLOCK") /\ "block" \in DOMAIN arg'.msg) =>
          LET b_data == arg'.msg.block
              block == Block(b_data.index, b_data.prev_hash, b_data.transactions,
                             b_data.nonce, b_data.timestamp, b_data.hash)
          IN  /\ is_valid_new_block(block, last_block(chain), utxo_set) =>
                     /\ Len(chain') = Len(chain) + 1
                     /\ BlockData(last_block(chain')) = b_data
              /\ b_data.prev_hash # last_block(chain).hash =>
                     \E i \in 1..Len(outbox') :
                         outbox'[i] = [to |-> arg'.peer, msg |-> request_chain_message]]_vars

\* C16: after NEW_TX with a transaction whose txid is not a key of the
\* mempool, the mempool holds the transaction.
C16_NewTxAdmitted ==
    [][(/\ HandledType(arg', "NEW_TX")
        /\ "tx" \in DOMAIN arg'.msg
        /\ tx_compute_hash(arg'.msg.tx) \notin Txids(mempool)) =>
          \E i \in 1..Len(mempool') : to_dict(mempool'[i]) = arg'.msg.tx]_vars

\* C19: the stored txid of every transaction of the chain is the hash of
\* its content, and every key of the UTXO index carries the hash of a
\* transaction of the chain.
C19_TxidIsHash ==
    /\ \A i \in 1..Len(FlatTxs(chain)) :
           FlatTxs(chain)[i].txid = tx_compute_hash(FlatTxs(chain)[i])
    /\ \A k \in DOMAIN utxo_set :
           \E i \in 1..Len(FlatTxs(chain)) : k[1] = tx_compute_hash(FlatTxs(chain)[i])

\* C17: once every byte of the peer has been read, the messages handed to
\* handle_message are the messages the peer sent, each once and in the order
\* sent, however recv() cut the bytes; for a peer that sent well-formed
\* messages only.
C17_EveryMessageDispatchedOnce ==
    (/\ arg.op = "handle_client"
     /\ stream = << >>
     /\ \A i \in 1..Len(arg.sent) : arg.sent[i] \in GoodIds)
    => dispatched = arg.sent

\* C18: a read of handle_client with structurally bad messages in it leaves
\* the chain, the UTXO index and the mempool as they were and the
\* connection open.
C18_BadMessageDropped ==
    [][ret'.op = "handle_client" =>
          UNCHANGED <<chain, utxo_set, mempool, open>>]_vars

\* C21: get_transactions(limit) returns, for every limit >= 0, the first
\* min(limit, size) transactions of the mempool in insertion order, so never
\* more than limit of them.
C21_GetReturnsFirstLimit ==
    arg.op = "get_transactions" =>
        arg.txs = SubSeq(mempool, 1, IF arg.limit < Len(mempool) THEN arg.limit
                                     ELSE Len(mempool))

\* C22: broadcast attempts delivery to every peer that is active when it
\* starts: every peer whose send succeeds receives the message, and exactly the
\* peers whose send failed leave the active set.
C22_BroadcastReachesEveryPeer ==
    arg.op = "broadcast" =>
        /\ {outbox[i].to : i \in 1..Len(outbox)} = Range(arg.peers) \ arg.down
        /\ Range(active_peers) = Range(arg.peers) \ arg.down

\* C25: the block at position i of the committed chain has index i: heights
\* are 0..n with no gaps and no repeats, after any add_block and replace_chain.
C25_HeightsAreContiguous ==
    \A i \in 1..Len(chain) : chain[i].index = i - 1

\* C26: every entry of the UTXO index has a non-negative value, so no balance
\* is negative, after any add_block and replace_chain.
C26_UtxoValuesNonNegative ==
    \A k \in DOMAIN utxo_set : utxo_set[k].value >= 0

\* C30: after every successful commit, by add_block or by replace_chain, the
\* snapshot on disk holds the chain and the UTXO index of memory, so that a
\* restart resumes with what was committed.
C30_SnapshotFollowsCommit ==
    (Committed("add_block") \/ Committed("replace_chain")) =>
        disk = save_to_disk(chain, utxo_set)

\* C23: a Blockchain constructed while the snapshot file exists holds exactly
\* the chain and the UTXO index of the snapshot; constructed without it, it
\* holds the genesis block alone and one UTXO of BLOCK_REWARD for
\* "genesis_miner". In both cases the chain has exactly one block of index 0,
\* at position 0.
C23_ConstructionLoadsOrCreates ==
    ret.op = "__init__" =>
        /\ disk.exists => chain = disk.chain /\ utxo_set = disk.utxo_set
        /\ ~disk.exists =>
               /\ Len(chain) = 1
               /\ chain[1].index = 0
               /\ chain[1].prev_hash = ZeroHash
               /\ Cardinality(DOMAIN utxo_set) = 1
               /\ \A k \in DOMAIN utxo_set :
                      utxo_set[k] = TxOutput(BLOCK_REWARD, "genesis_miner")
        /\ {i \in 1..Len(chain) : chain[i].index = 0} = {1}

\* C24: when the tip has reached the height of the candidate the miner is
\* searching a nonce for, the miner does not go on searching, the candidate is
\* never committed, and the next candidate is built on the tip of that moment
\* (index = tip index + 1, prev_hash = tip hash).
C24_StaleCandidateAbandoned ==
    [][/\ (pc.miner = "pow" /\ pc'.miner = "pow" /\ m_block' # m_block) =>
              last_block(chain).index < m_block'.index
       /\ (pc.miner = "pow" /\ pc'.miner = "idle") =>
              /\ last_block(chain).index >= m_block'.index
              /\ UNCHANGED chain
       /\ (pc.miner = "submit" /\ pc'.miner = "idle"
              /\ last_block(chain).index >= m_block.index) =>
              /\ UNCHANGED <<chain, utxo_set, disk>>
              /\ ~ret'.result
       /\ (pc.miner = "idle" /\ pc'.miner = "pow") =>
              /\ m_block'.index = last_block(chain).index + 1
              /\ m_block'.prev_hash = last_block(chain).hash]_vars

\* The miner left the search of a candidate the tip had caught up with, and
\* the candidate is not in the chain.
C24_Witness ==
    /\ ret = Result("mine_forever", FALSE, "Chain advanced")
    /\ arg.block.index <= last_block(chain).index
    /\ \A i \in 1..Len(chain) : chain[i].nonce # arg.block.nonce
                                  \/ chain[i].timestamp # arg.block.timestamp
                                  \/ chain[i].prev_hash # arg.block.prev_hash

\* C27: once the shutdown path of the orchestrator has run, the P2P listener
\* accepts no new inbound connection and the miner starts no new candidate.
C27_ShutdownStopsListener ==
    [][pc.main # "run" =>
          /\ ~(ret'.op = "accept" /\ ret'.result /\ open' # open)
          /\ ~(pc.miner = "idle" /\ pc'.miner = "pow")]_vars

\* C28: after an accept that failed the listener is still in its accept loop,
\* so that later connections are accepted and given a handler.
C28_FailedAcceptKeepsListening ==
    (ret.op = "accept" /\ ~ret.result) => pc.server = "accept"

\* C29: no content of the mempool makes the candidates of the miner be
\* rejected for ever: a turn of the miner's loop whose candidate add_block
\* rejects does not leave the chain, the UTXO index and the mempool as they
\* were (the next candidate would hold the same transactions on the same tip
\* and be rejected again, turn after turn).
C29_RejectedTurnChangesCandidate ==
    [][(arg'.op = "mine_forever" /\ ret'.op = "add_block" /\ ~ret'.result) =>
          ~UNCHANGED <<chain, utxo_set, mempool>>]_vars

====
